---- MODULE Spec2Model ----
(***************************************************************************)
(* Model of agoro_field_boundary_detector/data/transformations.py:         *)
(* the transform dispatcher, the translation operators (t_linear,          *)
(* t_quartile, t_offset), the noise operators (t_linear, t_rotation,       *)
(* t_flip, t_blur, t_gamma) and the TRANSLATION / NOISE registries.        *)
(*                                                                         *)
(* Arrays are records [h, w, at]: h rows, w columns and the 0-based pixel  *)
(* function at[<<i, j>>].  A mask pixel is an integer label, a field pixel *)
(* the triple <<r, g, b>> of its three channels.  Array objects live in    *)
(* heap (a sequence; a reference is an index into it), so that a write     *)
(* through one reference is seen through every alias of it.                *)
(***************************************************************************)
EXTENDS Integers, Sequences, FiniteSets, TLC

VARIABLES
    heap,         \* the array objects; heap[1], heap[2]: the caller's field, mask
    field,        \* transform's local `field` (a reference)
    mask,         \* transform's local `mask` (a reference)
    translation,  \* transform's argument: name of the translation callable
    t_idx,        \* transform's argument
    noise,        \* transform's argument: name of the noise callable
    n_idx,        \* transform's argument
    pc,           \* "call", "translation" (line 21), "noise" (line 22), "done", "failed"
    err,          \* "none", "AssertionError", "LibraryError"
    invoked       \* the operators invoked so far, in order

vars == <<heap, field, mask, translation, t_idx, noise, n_idx, pc, err, invoked>>

\* ------------------------------------------------------------------ bounds

\* Half of the side of the tile the registries assume (512 = 1024 // 2 in the
\* program, line 150), scaled down.
HalfSide == 2

TileSide == 2 * HalfSide

Sides == {HalfSide, HalfSide + 1, TileSide}

Shapes == Sides \X Sides

\* ----------------------------------------------------------- numpy arrays

Min(a, b) == IF a <= b THEN a ELSE b

Max(a, b) == IF a >= b THEN a ELSE b

Grid(h, w) == (0 .. h - 1) \X (0 .. w - 1)

EmptyArr(a) == a.h = 0 \/ a.w = 0

\* The array a, its pixels computed once and stored (numpy arrays hold their
\* pixels; a function of the model is otherwise recomputed at every read).
Stored(a) == LET px == a.at IN IF px = px THEN [h |-> a.h, w |-> a.w, at |-> px] ELSE a

\* A slice bound of Python: a negative bound counts from the end, and every
\* bound is clamped to 0..n.
SliceIdx(i, n) == IF i < 0 THEN Max(i + n, 0) ELSE Min(i, n)

\* a[r0:r1, c0:c1]
Slice2(a, r0, r1, c0, c1) ==
    LET rs == SliceIdx(r0, a.h)
        re == SliceIdx(r1, a.h)
        cs == SliceIdx(c0, a.w)
        ce == SliceIdx(c1, a.w)
        nh == Max(re - rs, 0)
        nw == Max(ce - cs, 0)
    IN  [h |-> nh, w |-> nw,
         at |-> [p \in Grid(nh, nw) |-> a.at[<<rs + p[1], cs + p[2]>>]]]

\* a.repeat(2, axis=0)
RepeatAxis0(a) ==
    [h |-> 2 * a.h, w |-> a.w,
     at |-> [p \in Grid(2 * a.h, a.w) |-> a.at[<<p[1] \div 2, p[2]>>]]]

\* a.repeat(2, axis=1)
RepeatAxis1(a) ==
    [h |-> a.h, w |-> 2 * a.w,
     at |-> [p \in Grid(a.h, 2 * a.w) |-> a.at[<<p[1], p[2] \div 2>>]]]

\* Repeat2 with the second repeat left out.
Repeat2_OneAxis(a) == RepeatAxis0(a)

\* a.repeat(2, axis=0).repeat(2, axis=1)
Repeat2(a) == RepeatAxis1(RepeatAxis0(a))

\* np.rot90(a): one quarter turn counter-clockwise
Rot90(a) ==
    [h |-> a.w, w |-> a.h,
     at |-> [p \in Grid(a.w, a.h) |-> a.at[<<p[2], a.w - 1 - p[1]>>]]]

\* np.fliplr(a)
Fliplr(a) ==
    [h |-> a.h, w |-> a.w,
     at |-> [p \in Grid(a.h, a.w) |-> a.at[<<p[1], a.w - 1 - p[2]>>]]]

\* FlipAxis0 flipping the other axis.
FlipAxis0_OtherAxis(a) ==
    [h |-> a.h, w |-> a.w,
     at |-> [p \in Grid(a.h, a.w) |-> a.at[<<p[1], a.w - 1 - p[2]>>]]]

\* np.flip(a, axis=0)
FlipAxis0(a) ==
    [h |-> a.h, w |-> a.w,
     at |-> [p \in Grid(a.h, a.w) |-> a.at[<<a.h - 1 - p[1], p[2]>>]]]

\* np.flip(a, axis=1)
FlipAxis1(a) ==
    [h |-> a.h, w |-> a.w,
     at |-> [p \in Grid(a.h, a.w) |-> a.at[<<p[1], a.w - 1 - p[2]>>]]]

\* np.unique(a), as a set
Unique(a) == {a.at[p] : p \in DOMAIN a.at}

RECURSIVE Sorted(_)
\* sorted(S)
Sorted(S) ==
    IF S = {} THEN <<>>
    ELSE LET m == CHOOSE x \in S : \A y \in S : x <= y
         IN  <<m>> \o Sorted(S \ {m})

\* a[a == v] = new
MaskedAssign(a, v, new) ==
    [a EXCEPT !.at = [p \in DOMAIN a.at |-> IF a.at[p] = v THEN new ELSE a.at[p]]]

RECURSIVE NormaliseLoop(_, _, _)
\* for idx, v in enumerate(values): mask_slice[mask_slice == v] = idx + 1
\* (k is idx + 1; the assignments are made in place, one value after the other)
NormaliseLoop(a, values, k) ==
    IF k > Len(values) THEN a
    ELSE NormaliseLoop(MaskedAssign(a, values[k], k), values, k + 1)

\* Normalise going through the values from the largest to the smallest.
Normalise_Descending(mask_slice) ==
    LET values == Sorted(Unique(mask_slice) \ {0})
        down   == [k \in 1 .. Len(values) |-> values[Len(values) + 1 - k]]
    IN  NormaliseLoop(mask_slice, down, 1)

\* "Normalise masking values" of t_quartile and t_offset
Normalise(mask_slice) ==
    LET values == Sorted(Unique(mask_slice) \ {0})
    IN  NormaliseLoop(mask_slice, values, 1)

\* np.uint8(x) of one integer
Uint8(x) == x % 256

\* ------------------------------------------------------------------- heap

\* A new array object; the reference to it is Len of the new heap.
Alloc(h, a) == Append(h, a)

\* NpCopy handing back the object itself instead of a copy.
NpCopy_Alias(h, r) == [heap |-> h, ref |-> r]

\* np.copy(heap[r]): a new object with the same pixels
NpCopy(h, r) == [heap |-> Alloc(h, h[r]), ref |-> Len(h) + 1]

Ok(h, f, m) == [ok |-> TRUE, heap |-> h, field |-> f, mask |-> m, err |-> "none"]

Raise(h, f, m, e) == [ok |-> FALSE, heap |-> h, field |-> f, mask |-> m, err |-> e]

\* ---------------------------------------------------------------- t_linear

\* np.asarray(Image.fromarray(np.uint8(field), "RGB"))
EncodeRGB(a) ==
    [h |-> a.h, w |-> a.w,
     at |-> [p \in DOMAIN a.at |->
               <<Uint8(a.at[p][1]), Uint8(a.at[p][2]), Uint8(a.at[p][3])>>]]

\* np.asarray(Image.fromarray(np.uint8(mask), "L"))
EncodeL(a) ==
    [h |-> a.h, w |-> a.w, at |-> [p \in DOMAIN a.at |-> Uint8(a.at[p])]]

\* t_linear(field, mask, _): both arrays are re-encoded into new 8-bit arrays.
t_linear(h, f, m, idx) ==
    LET field_t == EncodeRGB(h[f])
        mask_t  == EncodeL(h[m])
    IN  Ok(Alloc(Alloc(h, field_t), mask_t), Len(h) + 1, Len(h) + 2)

\* -------------------------------------------------------------- t_quartile

\* QUADRANTS listed column by column.
QUADRANTS_ByColumn == <<(<<0, 0>>), (<<1, 0>>), (<<0, 1>>), (<<1, 1>>)>>

\* [(0, 0), (0, 1), (1, 0), (1, 1)]
QUADRANTS == <<(<<0, 0>>), (<<0, 1>>), (<<1, 0>>), (<<1, 1>>)>>

\* assert idx in range(0, 3 + 1)
QuartileIdxOk(idx) == idx \in 0 .. 3

t_quartile(h, f, m, idx) ==
    IF ~QuartileIdxOk(idx) THEN Raise(h, f, m, "AssertionError")
    ELSE
    LET x      == QUADRANTS[idx + 1][1]
        y      == QUADRANTS[idx + 1][2]
        width  == h[m].h
        height == h[m].w
        r0     == (width \div 2) * x
        r1     == (width \div 2) * (x + 1)
        c0     == (height \div 2) * y
        c1     == (height \div 2) * (y + 1)
        field_slice == Repeat2(Slice2(h[f], r0, r1, c0, c1))
        mask_slice  == Normalise(Repeat2(Slice2(h[m], r0, r1, c0, c1)))
    IN  Ok(Alloc(Alloc(h, field_slice), mask_slice), Len(h) + 1, Len(h) + 2)

\* ---------------------------------------------------------------- t_offset

\* OffsetOk with < for <=.
OffsetOk_Strict(a, offset) == offset < Min(a.h \div 2, a.w \div 2)

\* assert offset <= min(width, height), width and height already halved
OffsetOk(a, offset) == offset <= Min(a.h \div 2, a.w \div 2)

t_offset(h, f, m, offset) ==
    IF ~OffsetOk(h[m], offset) THEN Raise(h, f, m, "AssertionError")
    ELSE
    LET width  == h[m].h \div 2
        height == h[m].w \div 2
        field_slice ==
            Repeat2(Slice2(h[f], offset, offset + width, offset, offset + height))
        mask_slice ==
            Normalise(Repeat2(Slice2(h[m], offset, offset + width, offset, offset + height)))
    IN  Ok(Alloc(Alloc(h, field_slice), mask_slice), Len(h) + 1, Len(h) + 2)

\* -------------------------------------------------------------- t_rotation

\* assert rot in range(0, 3 + 1)
RotationIdxOk(rot) == rot \in 0 .. 3

RECURSIVE RotN(_, _)
\* for _ in range(rot): a = np.rot90(a)
RotN(a, rot) == IF rot <= 0 THEN a ELSE RotN(Rot90(a), rot - 1)

\* With rot = 0 the loop body never runs and the arguments themselves are
\* returned; otherwise rot90 returns new array objects (views, which nothing
\* here writes through).
t_rotation(h, f, m, rot) ==
    IF ~RotationIdxOk(rot) THEN Raise(h, f, m, "AssertionError")
    ELSE IF rot = 0 THEN Ok(h, f, m)
    ELSE Ok(Alloc(Alloc(h, RotN(h[f], rot)), RotN(h[m], rot)), Len(h) + 1, Len(h) + 2)

\* ------------------------------------------------------------------ t_flip

\* assert idx in range(0, 2 + 1)
FlipIdxOk(idx) == idx \in 0 .. 2

\* The three `if idx == ...` of t_flip, applied to one array.
FlipBy(a, idx) ==
    LET a0 == IF idx = 0 THEN Rot90(Fliplr(a)) ELSE a
        a1 == IF idx = 1 THEN FlipAxis0(a0) ELSE a0
        a2 == IF idx = 2 THEN FlipAxis1(a1) ELSE a1
    IN  a2

t_flip(h, f, m, idx) ==
    IF ~FlipIdxOk(idx) THEN Raise(h, f, m, "AssertionError")
    ELSE Ok(Alloc(Alloc(h, FlipBy(h[f], idx)), FlipBy(h[m], idx)), Len(h) + 1, Len(h) + 2)

\* ------------------------------------------------------------------ t_blur

\* scipy.ndimage.gaussian_filter's kernel for sigma, truncate = 4.0: the
\* weights of the taps 0 .. int(4 * sigma + 0.5), in units of 1/10000 (the
\* kernel is symmetric and sums to 1).  The program computes in doubles; the
\* model in this fixed point.
GaussWeights(sigma) ==
    CASE sigma = 1 -> <<3990, 2420, 540, 44, 1>>
      [] sigma = 2 -> <<1994, 1760, 1210, 648, 270, 88, 22, 4, 1>>
      [] sigma = 3 -> <<1328, 1258, 1065, 807, 547, 332, 180, 87, 38, 15, 5, 2, 0>>
      [] sigma = 4 -> <<996, 967, 880, 753, 605, 457, 324, 216, 135, 79, 44, 23,
                        11, 5, 2, 1, 0>>

\* mode="reflect": (d c b a | a b c d | d c b a)
Reflect(i, n) ==
    LET r == i % (2 * n) IN IF r < n THEN r ELSE 2 * n - 1 - r

Abs(k) == IF k < 0 THEN -k ELSE k

\* The pixel of channel array a that tap k of the kernel reads for output (i, j).
Tap(a, axis, i, j, k) ==
    IF axis = 0 THEN a.at[<<Reflect(i + k, a.h), j>>]
    ELSE a.at[<<i, Reflect(j + k, a.w)>>]

RECURSIVE LineSum(_, _, _, _, _, _)
LineSum(a, wts, axis, i, j, k) ==
    IF k > Len(wts) - 1 THEN 0
    ELSE wts[Abs(k) + 1] * Tap(a, axis, i, j, k) + LineSum(a, wts, axis, i, j, k + 1)

\* correlate1d along one axis, the result stored back as an 8-bit value
\* (a cast, which truncates).
Correlate1d(a, wts, axis) ==
    Stored([h |-> a.h, w |-> a.w,
            at |-> [p \in DOMAIN a.at |->
                      LineSum(a, wts, axis, p[1], p[2], -(Len(wts) - 1)) \div 10000]])

\* gaussian_filter(channel, sigma=sigma): one pass per axis; an axis whose
\* sigma is not above 1e-15 is skipped, and with none left the input is copied.
gaussian_filter(a, sigma) ==
    IF sigma > 0
    THEN Correlate1d(Correlate1d(a, GaussWeights(sigma), 0), GaussWeights(sigma), 1)
    ELSE a

\* field[:, :, c]
Channel(a, c) ==
    Stored([h |-> a.h, w |-> a.w, at |-> [p \in DOMAIN a.at |-> a.at[p][c]]])

\* field[:, :, c] = ch
WriteChannel(a, c, ch) ==
    Stored([a EXCEPT !.at = [p \in DOMAIN a.at |-> [a.at[p] EXCEPT ![c] = ch.at[p]]]])

\* for i in range(3): field[:, :, i] = gaussian_filter(field[:, :, i], sigma=sigma)
BlurChannels(a, sigma) ==
    LET a1 == WriteChannel(a, 1, gaussian_filter(Channel(a, 1), sigma))
        a2 == WriteChannel(a1, 2, gaussian_filter(Channel(a1, 2), sigma))
        a3 == WriteChannel(a2, 3, gaussian_filter(Channel(a2, 3), sigma))
    IN  a3

\* t_blur has no assertion on sigma.  The loop writes into the object that
\* the local `field` refers to after line 127.
t_blur(h, f, m, sigma) ==
    LET c  == NpCopy(h, f)
        h1 == [c.heap EXCEPT ![c.ref] = BlurChannels(c.heap[c.ref], sigma)]
    IN  Ok(h1, c.ref, m)

\* ----------------------------------------------------------------- t_gamma

\* assert gamma in range(5, 15 + 1)
GammaIdxOk(gamma) == gamma \in 5 .. 15

\* GammaTable[gamma - 4][i + 1]: the table of line 141 for gamma in 5 .. 15,
\* ((i / 255.0) ** (1 / (gamma / 10))) * 255 in doubles, cast to uint8.
GammaTable == <<
    <<0, 0, 0, 0, 0, 0, 0, 0, 0, 0, 0, 0, 0, 0, 0, 0, 1, 1, 1, 1, 1, 1, 1, 2, 2, 2, 2, 2, 3, 3, 3, 3,
      4, 4, 4, 4, 5, 5, 5, 5, 6, 6, 6, 7, 7, 7, 8, 8, 9, 9, 9, 10, 10, 11, 11, 11, 12, 12, 13, 13, 14, 14, 15, 15,
      16, 16, 17, 17, 18, 18, 19, 19, 20, 20, 21, 22, 22, 23, 23, 24, 25, 25, 26, 27, 27, 28, 29, 29, 30, 31, 31, 32, 33, 33, 34, 35,
      36, 36, 37, 38, 39, 40, 40, 41, 42, 43, 44, 44, 45, 46, 47, 48, 49, 50, 50, 51, 52, 53, 54, 55, 56, 57, 58, 59, 60, 61, 62, 63,
      64, 65, 66, 67, 68, 69, 70, 71, 72, 73, 74, 75, 76, 77, 79, 80, 81, 82, 83, 84, 85, 87, 88, 89, 90, 91, 93, 94, 95, 96, 97, 99,
      100, 101, 102, 104, 105, 106, 108, 109, 110, 112, 113, 114, 116, 117, 118, 120, 121, 122, 124, 125, 127, 128, 129, 131, 132, 134, 135, 137, 138, 140, 141, 143,
      144, 146, 147, 149, 150, 152, 153, 155, 156, 158, 160, 161, 163, 164, 166, 168, 169, 171, 172, 174, 176, 177, 179, 181, 182, 184, 186, 188, 189, 191, 193, 195,
      196, 198, 200, 202, 203, 205, 207, 209, 211, 212, 214, 216, 218, 220, 222, 224, 225, 227, 229, 231, 233, 235, 237, 239, 241, 243, 245, 247, 249, 251, 253, 255>>,
    <<0, 0, 0, 0, 0, 0, 0, 0, 0, 0, 1, 1, 1, 1, 2, 2, 2, 2, 3, 3, 3, 3, 4, 4, 4, 5, 5, 6, 6, 6, 7, 7,
      8, 8, 8, 9, 9, 10, 10, 11, 11, 12, 12, 13, 13, 14, 14, 15, 15, 16, 16, 17, 18, 18, 19, 19, 20, 20, 21, 22, 22, 23, 24, 24,
      25, 26, 26, 27, 28, 28, 29, 30, 30, 31, 32, 33, 33, 34, 35, 36, 36, 37, 38, 39, 40, 40, 41, 42, 43, 44, 44, 45, 46, 47, 48, 49,
      50, 50, 51, 52, 53, 54, 55, 56, 57, 58, 59, 59, 60, 61, 62, 63, 64, 65, 66, 67, 68, 69, 70, 71, 72, 73, 74, 75, 76, 77, 78, 79,
      80, 81, 82, 84, 85, 86, 87, 88, 89, 90, 91, 92, 93, 94, 96, 97, 98, 99, 100, 101, 102, 104, 105, 106, 107, 108, 110, 111, 112, 113, 114, 116,
      117, 118, 119, 120, 122, 123, 124, 125, 127, 128, 129, 131, 132, 133, 134, 136, 137, 138, 140, 141, 142, 144, 145, 146, 148, 149, 150, 152, 153, 154, 156, 157,
      158, 160, 161, 163, 164, 165, 167, 168, 170, 171, 172, 174, 175, 177, 178, 180, 181, 183, 184, 185, 187, 188, 190, 191, 193, 194, 196, 197, 199, 200, 202, 203,
      205, 206, 208, 210, 211, 213, 214, 216, 217, 219, 220, 222, 224, 225, 227, 228, 230, 232, 233, 235, 236, 238, 240, 241, 243, 245, 246, 248, 250, 251, 253, 255>>,
    <<0, 0, 0, 0, 0, 0, 1, 1, 1, 2, 2, 2, 3, 3, 4, 4, 4, 5, 5, 6, 6, 7, 7, 8, 8, 9, 9, 10, 10, 11, 11, 12,
      13, 13, 14, 14, 15, 16, 16, 17, 18, 18, 19, 20, 20, 21, 22, 22, 23, 24, 24, 25, 26, 27, 27, 28, 29, 29, 30, 31, 32, 33, 33, 34,
      35, 36, 36, 37, 38, 39, 40, 41, 41, 42, 43, 44, 45, 46, 46, 47, 48, 49, 50, 51, 52, 53, 53, 54, 55, 56, 57, 58, 59, 60, 61, 62,
      63, 64, 65, 65, 66, 67, 68, 69, 70, 71, 72, 73, 74, 75, 76, 77, 78, 79, 80, 81, 82, 83, 84, 85, 86, 87, 88, 89, 91, 92, 93, 94,
      95, 96, 97, 98, 99, 100, 101, 102, 103, 104, 106, 107, 108, 109, 110, 111, 112, 113, 114, 116, 117, 118, 119, 120, 121, 122, 124, 125, 126, 127, 128, 129,
      131, 132, 133, 134, 135, 136, 138, 139, 140, 141, 142, 144, 145, 146, 147, 148, 150, 151, 152, 153, 155, 156, 157, 158, 159, 161, 162, 163, 164, 166, 167, 168,
      170, 171, 172, 173, 175, 176, 177, 178, 180, 181, 182, 184, 185, 186, 187, 189, 190, 191, 193, 194, 195, 197, 198, 199, 201, 202, 203, 205, 206, 207, 209, 210,
      211, 213, 214, 215, 217, 218, 220, 221, 222, 224, 225, 226, 228, 229, 231, 232, 233, 235, 236, 238, 239, 240, 242, 243, 245, 246, 247, 249, 250, 252, 253, 255>>,
    <<0, 0, 0, 0, 1, 1, 2, 2, 3, 3, 4, 5, 5, 6, 6, 7, 8, 8, 9, 9, 10, 11, 11, 12, 13, 13, 14, 15, 16, 16, 17, 18,
      19, 19, 20, 21, 22, 22, 23, 24, 25, 25, 26, 27, 28, 29, 29, 30, 31, 32, 33, 34, 34, 35, 36, 37, 38, 39, 40, 40, 41, 42, 43, 44,
      45, 46, 47, 47, 48, 49, 50, 51, 52, 53, 54, 55, 56, 57, 58, 58, 59, 60, 61, 62, 63, 64, 65, 66, 67, 68, 69, 70, 71, 72, 73, 74,
      75, 76, 77, 78, 79, 80, 81, 82, 83, 84, 85, 86, 87, 88, 89, 90, 91, 92, 93, 94, 95, 96, 97, 98, 99, 100, 101, 102, 103, 104, 105, 106,
      107, 108, 109, 110, 111, 113, 114, 115, 116, 117, 118, 119, 120, 121, 122, 123, 124, 125, 127, 128, 129, 130, 131, 132, 133, 134, 135, 136, 137, 139, 140, 141,
      142, 143, 144, 145, 146, 147, 149, 150, 151, 152, 153, 154, 155, 157, 158, 159, 160, 161, 162, 163, 164, 166, 167, 168, 169, 170, 171, 173, 174, 175, 176, 177,
      178, 180, 181, 182, 183, 184, 185, 187, 188, 189, 190, 191, 192, 194, 195, 196, 197, 198, 200, 201, 202, 203, 204, 206, 207, 208, 209, 210, 212, 213, 214, 215,
      216, 218, 219, 220, 221, 222, 224, 225, 226, 227, 229, 230, 231, 232, 233, 235, 236, 237, 238, 240, 241, 242, 243, 245, 246, 247, 248, 250, 251, 252, 253, 255>>,
    <<0, 0, 1, 1, 2, 3, 3, 4, 5, 6, 6, 7, 8, 9, 10, 10, 11, 12, 13, 14, 15, 15, 16, 17, 18, 19, 20, 21, 21, 22, 23, 24,
      25, 26, 27, 28, 28, 29, 30, 31, 32, 33, 34, 35, 36, 37, 38, 38, 39, 40, 41, 42, 43, 44, 45, 46, 47, 48, 49, 50, 51, 52, 52, 53,
      54, 55, 56, 57, 58, 59, 60, 61, 62, 63, 64, 65, 66, 67, 68, 69, 70, 71, 72, 73, 74, 75, 76, 77, 78, 79, 80, 81, 82, 83, 84, 85,
      86, 87, 88, 89, 90, 91, 92, 93, 94, 95, 96, 97, 98, 99, 100, 101, 102, 103, 104, 105, 106, 107, 108, 109, 110, 111, 112, 113, 114, 115, 116, 117,
      118, 119, 120, 121, 122, 123, 124, 125, 126, 127, 128, 129, 130, 132, 133, 134, 135, 136, 137, 138, 139, 140, 141, 142, 143, 144, 145, 146, 147, 148, 149, 150,
      151, 152, 154, 155, 156, 157, 158, 159, 160, 161, 162, 163, 164, 165, 166, 167, 168, 169, 171, 172, 173, 174, 175, 176, 177, 178, 179, 180, 181, 182, 183, 184,
      186, 187, 188, 189, 190, 191, 192, 193, 194, 195, 196, 197, 199, 200, 201, 202, 203, 204, 205, 206, 207, 208, 209, 210, 212, 213, 214, 215, 216, 217, 218, 219,
      220, 221, 222, 224, 225, 226, 227, 228, 229, 230, 231, 232, 233, 235, 236, 237, 238, 239, 240, 241, 242, 243, 245, 246, 247, 248, 249, 250, 251, 252, 253, 255>>,
    <<0, 1, 2, 3, 4, 5, 6, 7, 8, 9, 10, 11, 12, 13, 14, 15, 16, 17, 18, 19, 20, 21, 22, 23, 24, 25, 26, 27, 28, 29, 30, 31,
      32, 33, 34, 35, 36, 37, 38, 39, 40, 41, 42, 43, 44, 45, 46, 47, 48, 49, 50, 51, 52, 53, 54, 55, 56, 57, 58, 59, 60, 61, 62, 63,
      64, 65, 66, 67, 68, 69, 70, 71, 72, 73, 74, 75, 76, 77, 78, 79, 80, 81, 82, 83, 84, 85, 86, 87, 88, 89, 90, 91, 92, 93, 94, 95,
      96, 97, 98, 99, 100, 101, 102, 103, 104, 105, 106, 107, 108, 109, 110, 111, 112, 113, 114, 115, 116, 117, 118, 119, 120, 121, 122, 123, 124, 125, 126, 127,
      128, 129, 130, 131, 132, 133, 134, 135, 136, 137, 138, 139, 140, 141, 142, 143, 144, 145, 146, 147, 148, 149, 150, 151, 152, 153, 154, 155, 156, 157, 158, 159,
      160, 161, 162, 163, 164, 165, 166, 167, 168, 169, 170, 171, 172, 173, 174, 175, 176, 177, 178, 179, 180, 181, 182, 183, 184, 185, 186, 187, 188, 189, 190, 191,
      192, 193, 194, 195, 196, 197, 198, 199, 200, 201, 202, 203, 204, 205, 206, 207, 208, 209, 210, 211, 212, 213, 214, 215, 216, 217, 218, 219, 220, 221, 222, 223,
      224, 225, 226, 227, 228, 229, 230, 231, 232, 233, 234, 235, 236, 237, 238, 239, 240, 241, 242, 243, 244, 245, 246, 247, 248, 249, 250, 251, 252, 253, 254, 255>>,
    <<0, 1, 3, 4, 5, 7, 8, 9, 10, 12, 13, 14, 15, 17, 18, 19, 20, 21, 22, 24, 25, 26, 27, 28, 29, 30, 31, 33, 34, 35, 36, 37,
      38, 39, 40, 41, 43, 44, 45, 46, 47, 48, 49, 50, 51, 52, 53, 54, 55, 56, 57, 59, 60, 61, 62, 63, 64, 65, 66, 67, 68, 69, 70, 71,
      72, 73, 74, 75, 76, 77, 78, 79, 80, 81, 82, 83, 84, 85, 86, 87, 88, 89, 90, 91, 92, 93, 94, 95, 96, 97, 98, 99, 100, 101, 102, 103,
      104, 105, 106, 107, 108, 109, 110, 111, 112, 113, 114, 115, 116, 117, 118, 119, 120, 121, 122, 123, 124, 125, 126, 127, 128, 129, 130, 131, 132, 133, 134, 135,
      136, 137, 138, 139, 140, 141, 142, 143, 143, 144, 145, 146, 147, 148, 149, 150, 151, 152, 153, 154, 155, 156, 157, 158, 159, 160, 161, 162, 163, 164, 165, 165,
      166, 167, 168, 169, 170, 171, 172, 173, 174, 175, 176, 177, 178, 179, 180, 181, 182, 182, 183, 184, 185, 186, 187, 188, 189, 190, 191, 192, 193, 194, 195, 196,
      197, 197, 198, 199, 200, 201, 202, 203, 204, 205, 206, 207, 208, 209, 210, 210, 211, 212, 213, 214, 215, 216, 217, 218, 219, 220, 221, 222, 222, 223, 224, 225,
      226, 227, 228, 229, 230, 231, 232, 233, 234, 234, 235, 236, 237, 238, 239, 240, 241, 242, 243, 244, 244, 245, 246, 247, 248, 249, 250, 251, 252, 253, 254, 255>>,
    <<0, 2, 4, 6, 7, 9, 11, 12, 14, 15, 17, 18, 19, 21, 22, 24, 25, 26, 27, 29, 30, 31, 33, 34, 35, 36, 38, 39, 40, 41, 42, 44,
      45, 46, 47, 48, 49, 51, 52, 53, 54, 55, 56, 57, 58, 60, 61, 62, 63, 64, 65, 66, 67, 68, 69, 71, 72, 73, 74, 75, 76, 77, 78, 79,
      80, 81, 82, 83, 84, 85, 86, 87, 88, 89, 90, 91, 92, 94, 95, 96, 97, 98, 99, 100, 101, 102, 103, 104, 105, 106, 107, 108, 109, 110, 111, 111,
      112, 113, 114, 115, 116, 117, 118, 119, 120, 121, 122, 123, 124, 125, 126, 127, 128, 129, 130, 131, 132, 133, 134, 135, 136, 137, 137, 138, 139, 140, 141, 142,
      143, 144, 145, 146, 147, 148, 149, 150, 151, 151, 152, 153, 154, 155, 156, 157, 158, 159, 160, 161, 162, 162, 163, 164, 165, 166, 167, 168, 169, 170, 171, 172,
      172, 173, 174, 175, 176, 177, 178, 179, 180, 180, 181, 182, 183, 184, 185, 186, 187, 188, 188, 189, 190, 191, 192, 193, 194, 195, 196, 196, 197, 198, 199, 200,
      201, 202, 203, 203, 204, 205, 206, 207, 208, 209, 209, 210, 211, 212, 213, 214, 215, 216, 216, 217, 218, 219, 220, 221, 222, 222, 223, 224, 225, 226, 227, 228,
      228, 229, 230, 231, 232, 233, 233, 234, 235, 236, 237, 238, 239, 239, 240, 241, 242, 243, 244, 244, 245, 246, 247, 248, 249, 249, 250, 251, 252, 253, 254, 255>>,
    <<0, 3, 6, 8, 10, 12, 14, 16, 17, 19, 21, 22, 24, 25, 27, 28, 30, 31, 33, 34, 35, 37, 38, 40, 41, 42, 44, 45, 46, 47, 49, 50,
      51, 52, 54, 55, 56, 57, 58, 60, 61, 62, 63, 64, 66, 67, 68, 69, 70, 71, 72, 73, 75, 76, 77, 78, 79, 80, 81, 82, 83, 84, 85, 86,
      88, 89, 90, 91, 92, 93, 94, 95, 96, 97, 98, 99, 100, 101, 102, 103, 104, 105, 106, 107, 108, 109, 110, 111, 112, 113, 114, 115, 116, 117, 118, 119,
      120, 121, 122, 123, 124, 125, 126, 126, 127, 128, 129, 130, 131, 132, 133, 134, 135, 136, 137, 138, 139, 140, 140, 141, 142, 143, 144, 145, 146, 147, 148, 149,
      150, 150, 151, 152, 153, 154, 155, 156, 157, 158, 159, 159, 160, 161, 162, 163, 164, 165, 166, 166, 167, 168, 169, 170, 171, 172, 173, 173, 174, 175, 176, 177,
      178, 179, 179, 180, 181, 182, 183, 184, 184, 185, 186, 187, 188, 189, 190, 190, 191, 192, 193, 194, 195, 195, 196, 197, 198, 199, 200, 200, 201, 202, 203, 204,
      204, 205, 206, 207, 208, 209, 209, 210, 211, 212, 213, 213, 214, 215, 216, 217, 218, 218, 219, 220, 221, 222, 222, 223, 224, 225, 226, 226, 227, 228, 229, 230,
      230, 231, 232, 233, 233, 234, 235, 236, 237, 237, 238, 239, 240, 241, 241, 242, 243, 244, 244, 245, 246, 247, 248, 248, 249, 250, 251, 251, 252, 253, 254, 255>>,
    <<0, 4, 7, 10, 13, 15, 17, 19, 21, 23, 25, 27, 28, 30, 32, 33, 35, 36, 38, 39, 41, 42, 44, 45, 47, 48, 49, 51, 52, 53, 55, 56,
      57, 59, 60, 61, 62, 64, 65, 66, 67, 69, 70, 71, 72, 73, 75, 76, 77, 78, 79, 80, 81, 83, 84, 85, 86, 87, 88, 89, 90, 91, 92, 93,
      94, 96, 97, 98, 99, 100, 101, 102, 103, 104, 105, 106, 107, 108, 109, 110, 111, 112, 113, 114, 115, 116, 117, 118, 119, 120, 121, 122, 123, 124, 125, 125,
      126, 127, 128, 129, 130, 131, 132, 133, 134, 135, 136, 137, 138, 138, 139, 140, 141, 142, 143, 144, 145, 146, 147, 147, 148, 149, 150, 151, 152, 153, 154, 154,
      155, 156, 157, 158, 159, 160, 161, 161, 162, 163, 164, 165, 166, 167, 167, 168, 169, 170, 171, 172, 172, 173, 174, 175, 176, 177, 177, 178, 179, 180, 181, 181,
      182, 183, 184, 185, 186, 186, 187, 188, 189, 190, 190, 191, 192, 193, 194, 194, 195, 196, 197, 198, 198, 199, 200, 201, 201, 202, 203, 204, 205, 205, 206, 207,
      208, 208, 209, 210, 211, 212, 212, 213, 214, 215, 215, 216, 217, 218, 218, 219, 220, 221, 221, 222, 223, 224, 224, 225, 226, 227, 227, 228, 229, 230, 230, 231,
      232, 233, 233, 234, 235, 236, 236, 237, 238, 239, 239, 240, 241, 242, 242, 243, 244, 244, 245, 246, 247, 247, 248, 249, 249, 250, 251, 252, 252, 253, 254, 255>>,
    <<0, 6, 10, 13, 15, 18, 20, 23, 25, 27, 29, 31, 33, 35, 36, 38, 40, 41, 43, 45, 46, 48, 49, 51, 52, 54, 55, 57, 58, 59, 61, 62,
      63, 65, 66, 67, 69, 70, 71, 72, 74, 75, 76, 77, 79, 80, 81, 82, 83, 84, 86, 87, 88, 89, 90, 91, 92, 93, 95, 96, 97, 98, 99, 100,
      101, 102, 103, 104, 105, 106, 107, 108, 109, 110, 111, 112, 113, 114, 115, 116, 117, 118, 119, 120, 121, 122, 123, 124, 125, 126, 127, 128, 129, 130, 131, 132,
      132, 133, 134, 135, 136, 137, 138, 139, 140, 141, 142, 142, 143, 144, 145, 146, 147, 148, 149, 149, 150, 151, 152, 153, 154, 155, 155, 156, 157, 158, 159, 160,
      161, 161, 162, 163, 164, 165, 166, 166, 167, 168, 169, 170, 170, 171, 172, 173, 174, 175, 175, 176, 177, 178, 179, 179, 180, 181, 182, 182, 183, 184, 185, 186,
      186, 187, 188, 189, 189, 190, 191, 192, 193, 193, 194, 195, 196, 196, 197, 198, 199, 199, 200, 201, 202, 202, 203, 204, 205, 205, 206, 207, 208, 208, 209, 210,
      211, 211, 212, 213, 213, 214, 215, 216, 216, 217, 218, 219, 219, 220, 221, 221, 222, 223, 224, 224, 225, 226, 226, 227, 228, 228, 229, 230, 231, 231, 232, 233,
      233, 234, 235, 235, 236, 237, 238, 238, 239, 240, 240, 241, 242, 242, 243, 244, 244, 245, 246, 246, 247, 248, 248, 249, 250, 250, 251, 252, 252, 253, 254, 255>>
    >>

\* cv2.LUT(field, table): a new array
LUT(a, table) ==
    [h |-> a.h, w |-> a.w,
     at |-> [p \in DOMAIN a.at |->
               <<table[a.at[p][1] + 1], table[a.at[p][2] + 1], table[a.at[p][3] + 1]>>]]

t_gamma(h, f, m, gamma) ==
    IF ~GammaIdxOk(gamma) THEN Raise(h, f, m, "AssertionError")
    ELSE Ok(Alloc(h, LUT(h[f], GammaTable[gamma - 4])), Len(h) + 1, m)

\* -------------------------------------------------------------- registries

\* TRANSLATION with the side of the tile, not half of it, as the last offset.
TRANSLATION_FullSide == <<
    (<<"t_linear", 0, 0>>),
    (<<"t_quartile", 0, 3>>),
    (<<"t_offset", 0, TileSide>>) >>

\* TRANSLATION: (operator, (lowest index, highest index)).  The program's
\* t_offset entry is (0, 512) for its 1024 x 1024 tiles; here (0, HalfSide)
\* for TileSide x TileSide tiles.
TRANSLATION == <<
    (<<"t_linear", 0, 0>>),
    (<<"t_quartile", 0, 3>>),
    (<<"t_offset", 0, HalfSide>>) >>

\* NOISE
NOISE == <<
    (<<"t_linear", 0, 0>>),
    (<<"t_rotation", 0, 3>>),
    (<<"t_flip", 0, 2>>),
    (<<"t_blur", 1, 3>>),
    (<<"t_gamma", 8, 12>>) >>

\* The (operator, index) pairs a caller can sample from a registry.
Samples(registry) ==
    UNION {{<<registry[k][1], i>> : i \in registry[k][2] .. registry[k][3]} :
              k \in DOMAIN registry}

\* -------------------------------------------------------------- dispatcher

\* The callables of the module that take (field, mask, index).
Callables ==
    {"t_linear", "t_quartile", "t_offset", "t_rotation", "t_flip", "t_blur", "t_gamma"}

\* TranslationNameOk checked against the noise operators' names as well.
TranslationNameOk_AnyOperator(name) ==
    name \in {"t_linear", "t_quartile", "t_offset", "t_rotation", "t_flip", "t_blur", "t_gamma"}

\* assert translation.__name__ in ("t_linear", "t_quartile", "t_offset")
TranslationNameOk(name) == name \in {"t_linear", "t_quartile", "t_offset"}

\* assert noise.__name__ in ("t_linear", "t_rotation", "t_flip", "t_blur", "t_gamma")
NoiseNameOk(name) == name \in {"t_linear", "t_rotation", "t_flip", "t_blur", "t_gamma"}

\* The call name(field, mask, idx)
Apply(name, h, f, m, idx) ==
    CASE name = "t_linear"   -> t_linear(h, f, m, idx)
      [] name = "t_quartile" -> t_quartile(h, f, m, idx)
      [] name = "t_offset"   -> t_offset(h, f, m, idx)
      [] name = "t_rotation" -> t_rotation(h, f, m, idx)
      [] name = "t_flip"     -> t_flip(h, f, m, idx)
      [] name = "t_blur"     -> t_blur(h, f, m, idx)
      [] name = "t_gamma"    -> t_gamma(h, f, m, idx)

\* PIL, scipy and OpenCV are handed an array with no pixels only after
\* t_offset was given a negative offset; whether they then raise or return
\* an array with no pixels is left open: both outcomes are possible.
Outcomes(name, h, f, m, idx) ==
    LET r == Apply(name, h, f, m, idx)
    IN  {r} \cup
        (IF r.ok /\ EmptyArr(h[f]) /\ name \in {"t_linear", "t_blur", "t_gamma"}
         THEN {Raise(IF name = "t_blur" THEN NpCopy(h, f).heap ELSE h,
                     f, m, "LibraryError")}
         ELSE {})

\* The indices a call of an operator is tried with: its documented range
\* and the values next to it on both sides.
IndexProbes(name) ==
    CASE name = "t_linear"   -> -1 .. 1
      [] name = "t_quartile" -> -1 .. 4
      [] name = "t_offset"   -> -1 .. HalfSide + 1
      [] name = "t_rotation" -> -1 .. 4
      [] name = "t_flip"     -> -1 .. 3
      [] name = "t_blur"     -> -1 .. 4
      [] name = "t_gamma"    -> 4 .. 16

\* The arguments transform is called with.  The index of an operator that
\* the dispatcher rejects by name is never read, so one value stands for it.
CallArgs ==
    {a \in Callables \X (-1 .. 16) \X Callables \X (-1 .. 16) :
        /\ a[2] \in (IF TranslationNameOk(a[1]) THEN IndexProbes(a[1]) ELSE {0})
        /\ a[4] \in (IF NoiseNameOk(a[3]) THEN IndexProbes(a[3]) ELSE {0})}

\* transform, lines 19-20: the two assertions on the callables' names.
transform ==
    /\ pc = "call"
    /\ \E a \in CallArgs :
        /\ translation' = a[1]
        /\ t_idx' = a[2]
        /\ noise' = a[3]
        /\ n_idx' = a[4]
        /\ IF TranslationNameOk(a[1]) /\ NoiseNameOk(a[3])
           THEN pc' = "translation" /\ err' = err
           ELSE pc' = "failed" /\ err' = "AssertionError"
    /\ UNCHANGED <<heap, field, mask, invoked>>

\* transform, lines 21 and 22: the call of the translation, then of the noise,
\* each rebinding field and mask to what the operator returns.
Invoke(name) ==
    /\ pc \in {"translation", "noise"}
    /\ name = (IF pc = "translation" THEN translation ELSE noise)
    /\ \E r \in Outcomes(name, heap, field, mask,
                         IF pc = "translation" THEN t_idx ELSE n_idx) :
        /\ heap' = r.heap
        /\ invoked' = Append(invoked, name)
        /\ IF r.ok
           THEN /\ field' = r.field
                /\ mask' = r.mask
                /\ pc' = (IF pc = "translation" THEN "noise" ELSE "done")
                /\ err' = err
           ELSE /\ pc' = "failed"
                /\ err' = r.err
                /\ UNCHANGED <<field, mask>>
    /\ UNCHANGED <<translation, t_idx, noise, n_idx>>

Call_t_linear == Invoke("t_linear")

Call_t_quartile == Invoke("t_quartile")

Call_t_offset == Invoke("t_offset")

Call_t_rotation == Invoke("t_rotation")

Call_t_flip == Invoke("t_flip")

Call_t_blur == Invoke("t_blur")

Call_t_gamma == Invoke("t_gamma")

\* ------------------------------------------------------------------ inputs

\* The caller's field: the first two channels of a pixel tell its place,
\* spread over the 8-bit range; the third counts down from 255.
FieldOf(h, w) ==
    LET stride == 255 \div (h * w)
    IN  [h |-> h, w |-> w,
         at |-> [p \in Grid(h, w) |->
                   <<stride * (p[1] * w + p[2]),
                     stride * (p[1] * w + p[2]) + 1,
                     255 - stride * (p[1] * w + p[2])>>]]

\* 2 x 2 blocks of labels <<top-left, top-right, bottom-left, bottom-right>>
\* the caller's masks are laid out from.
MaskBlocks ==
    { <<0, 0, 0, 0>>, <<0, 1, 2, 0>>, <<5, 2, 0, 300>>, <<300, 5, 2, 1>>, <<7, 7, 0, 7>>,
      <<256, 1, 255, 0>> }

MaskLayouts == {"quadrants", "tiled"}

\* "quadrants": each quadrant of the mask carries one label of the block;
\* "tiled": the block is repeated over the mask.
MaskOf(h, w, block, layout) ==
    [h |-> h, w |-> w,
     at |-> [p \in Grid(h, w) |->
               IF layout = "quadrants"
               THEN block[2 * (IF p[1] < h \div 2 THEN 0 ELSE 1)
                          + (IF p[2] < w \div 2 THEN 0 ELSE 1) + 1]
               ELSE block[2 * (p[1] % 2) + (p[2] % 2) + 1]]]

Init ==
    /\ \E s \in Shapes, b \in MaskBlocks, l \in MaskLayouts :
           heap = <<FieldOf(s[1], s[2]), MaskOf(s[1], s[2], b, l)>>
    /\ field = 1
    /\ mask = 2
    /\ translation = "none"
    /\ t_idx = 0
    /\ noise = "none"
    /\ n_idx = 0
    /\ pc = "call"
    /\ err = "none"
    /\ invoked = <<>>

Next ==
    \/ transform
    \/ Call_t_linear
    \/ Call_t_quartile
    \/ Call_t_offset
    \/ Call_t_rotation
    \/ Call_t_flip
    \/ Call_t_blur
    \/ Call_t_gamma

Spec == Init /\ [][Next]_vars

\* -------------------------------------------------------------- properties

\* The arrays the caller passed to transform.
InField == heap[1]

InMask == heap[2]

\* The call of the translation has returned a pair (heap[3], heap[4]).
TranslationReturned == pc \in {"noise", "done"} \/ (pc = "failed" /\ Len(invoked) = 2)

SameShape(a, b) == a.h = b.h /\ a.w = b.w

Even(n) == n % 2 = 0

\* The index ranges the operators are documented with, for an h x w pair.
DocumentedIdx(name, idx, h, w) ==
    CASE name = "t_linear"   -> idx = 0
      [] name = "t_quartile" -> idx \in 0 .. 3
      [] name = "t_offset"   -> idx \in 0 .. (Min(h, w) \div 2)
      [] name = "t_rotation" -> idx \in 0 .. 3
      [] name = "t_flip"     -> idx \in 0 .. 2
      [] name = "t_blur"     -> idx \in 1 .. 3
      [] name = "t_gamma"    -> idx \in 5 .. 15
      [] OTHER               -> FALSE

\* transform was called with allowed operators and documented indices.
ValidCall ==
    /\ translation \in {"t_linear", "t_quartile", "t_offset"}
    /\ noise \in {"t_linear", "t_rotation", "t_flip", "t_blur", "t_gamma"}
    /\ DocumentedIdx(translation, t_idx, InField.h, InField.w)
    /\ DocumentedIdx(noise, n_idx, InField.h, InField.w)

\* The noise operator turns rows into columns.
NoiseTransposes ==
    \/ noise = "t_rotation" /\ n_idx \in {1, 3}
    \/ noise = "t_flip" /\ n_idx = 0

C2_NamesChecked ==
    (/\ pc # "call"
     /\ \/ translation \notin {"t_linear", "t_quartile", "t_offset"}
        \/ noise \notin {"t_linear", "t_rotation", "t_flip", "t_blur", "t_gamma"}) =>
        /\ pc = "failed"
        /\ invoked = <<>>
        /\ Len(heap) = 2
        /\ field = 1 /\ mask = 2

C2_Witness ==
    /\ pc = "failed"
    /\ translation = "t_rotation"
    /\ noise = "t_quartile"
    /\ invoked = <<>>

\* C3 as stated: every operator given an index outside its documented range
\* (quartile 0..3, offset 0..min(H,W) div 2, rotation 0..3, flip 0..2,
\* blur 1..3, gamma 5..15) fails, before any array is built or modified.
C3_RangeEnforced ==
    /\ (/\ Len(invoked) >= 1
        /\ translation \in {"t_quartile", "t_offset"}
        /\ ~DocumentedIdx(translation, t_idx, InField.h, InField.w)) =>
            (pc = "failed" /\ Len(invoked) = 1 /\ Len(heap) = 2)
    /\ (/\ Len(invoked) >= 2
        /\ noise \in {"t_rotation", "t_flip", "t_blur", "t_gamma"}
        /\ ~DocumentedIdx(noise, n_idx, heap[3].h, heap[3].w)) =>
            (pc = "failed" /\ Len(heap) = 4)
\* The pair the translation returned.
OutField == heap[3]

OutMask == heap[4]

\* Where the region a translation extracts starts in the input, as the
\* operators are documented: the quadrant (idx div 2, idx mod 2) for
\* t_quartile, (offset, offset) for t_offset.
RegionOrigin ==
    IF translation = "t_quartile"
    THEN <<(InMask.h \div 2) * (t_idx \div 2), (InMask.w \div 2) * (t_idx % 2)>>
    ELSE <<t_idx, t_idx>>

\* The input pixel that output pixel q of a translation replicates.
SourceOf(q) == <<RegionOrigin[1] + q[1] \div 2, RegionOrigin[2] + q[2] \div 2>>

\* The distinct non-zero labels of the extracted region of the input mask.
RegionLabels ==
    {InMask.at[<<RegionOrigin[1] + p[1], RegionOrigin[2] + p[2]>>] :
        p \in Grid(InMask.h \div 2, InMask.w \div 2)} \ {0}

\* The number a label gets: its rank among the region's non-zero labels.
Rank(label) == Cardinality({x \in RegionLabels : x <= label})

\* t_quartile or t_offset was called with a documented index and returned.
RegionExtracted ==
    /\ TranslationReturned
    /\ translation \in {"t_quartile", "t_offset"}
    /\ DocumentedIdx(translation, t_idx, InMask.h, InMask.w)

\* C4: the mask t_quartile and t_offset return has exactly 1..k as its
\* non-zero values, k the number of distinct non-zero labels of the extracted
\* region; the renumbering keeps the order of the labels, merges no two
\* labels, and keeps every 0.
C4_LabelsContiguous ==
    RegionExtracted =>
        /\ OutMask.h = 2 * (InMask.h \div 2)
        /\ OutMask.w = 2 * (InMask.w \div 2)
        /\ Unique(OutMask) \ {0} = 1 .. Cardinality(RegionLabels)
        /\ \A q \in DOMAIN OutMask.at :
               OutMask.at[q] = 0 <=> InMask.at[SourceOf(q)] = 0
        /\ \A q1, q2 \in DOMAIN OutMask.at :
               /\ InMask.at[SourceOf(q1)] < InMask.at[SourceOf(q2)]
                     => OutMask.at[q1] < OutMask.at[q2]
               /\ InMask.at[SourceOf(q1)] # InMask.at[SourceOf(q2)]
                     => OutMask.at[q1] # OutMask.at[q2]

C4_Witness ==
    /\ RegionExtracted
    /\ translation = "t_offset" /\ t_idx = 1
    /\ RegionLabels = {2, 5, 300}
    /\ Unique(OutMask) = {0, 1, 2, 3}

\* The mask of the worked example, [[0,0,1,1],[0,0,1,1],[2,2,0,0],[2,2,0,0]].
ExampleMask ==
    [h |-> 4, w |-> 4,
     at |-> [p \in Grid(4, 4) |->
               IF p[1] < 2 THEN (IF p[2] < 2 THEN 0 ELSE 1)
               ELSE (IF p[2] < 2 THEN 2 ELSE 0)]]

\* C5: on an even H x W pair t_quartile with idx 0, 1, 2, 3 takes the
\* quadrant (row, col) = (0,0), (0,1), (1,0), (1,1) and returns it with every
\* pixel replicated 2 x 2: output field pixel (i, j) is input field pixel
\* (row * H/2 + i div 2, col * W/2 + j div 2), output mask pixel (i, j) the
\* renumbered label of the input mask pixel there.  The example mask with
\* idx 0 gives the all-zero 4 x 4 mask.
C5_QuartileReplicates ==
    (/\ RegionExtracted
     /\ translation = "t_quartile"
     /\ Even(InMask.h) /\ Even(InMask.w)) =>
        LET rc  == <<(<<0, 0>>), (<<0, 1>>), (<<1, 0>>), (<<1, 1>>)>>[t_idx + 1]
            src(q) == <<rc[1] * (InMask.h \div 2) + q[1] \div 2,
                        rc[2] * (InMask.w \div 2) + q[2] \div 2>>
        IN  /\ SameShape(OutField, InField)
            /\ SameShape(OutMask, InMask)
            /\ \A q \in Grid(InMask.h, InMask.w) :
                   /\ OutField.at[q] = InField.at[src(q)]
                   /\ OutMask.at[q] = Rank(InMask.at[src(q)])
            /\ (InMask = ExampleMask /\ t_idx = 0) =>
                   \A q \in Grid(4, 4) : OutMask.at[q] = 0

C5_Witness ==
    /\ RegionExtracted
    /\ translation = "t_quartile" /\ t_idx = 0
    /\ InMask = ExampleMask
    /\ Unique(OutMask) = {0}

\* C6: on an even H x W pair t_offset with 0 <= offset <= min(H, W) div 2
\* returns the (H/2) x (W/2) region at (offset, offset) with every pixel
\* replicated 2 x 2, the mask renumbered; with offset 0 that is the pair
\* t_quartile returns for idx 0; a larger offset fails the precondition.
C6_OffsetReplicates ==
    (/\ Len(invoked) >= 1
     /\ translation = "t_offset"
     /\ Even(InMask.h) /\ Even(InMask.w)) =>
        /\ (t_idx \in 0 .. (Min(InMask.h, InMask.w) \div 2)) =>
              /\ TranslationReturned
              /\ SameShape(OutField, InField)
              /\ SameShape(OutMask, InMask)
              /\ \A q \in Grid(InMask.h, InMask.w) :
                     /\ OutField.at[q] = InField.at[<<t_idx + q[1] \div 2, t_idx + q[2] \div 2>>]
                     /\ OutMask.at[q] =
                            Rank(InMask.at[<<t_idx + q[1] \div 2, t_idx + q[2] \div 2>>])
              /\ t_idx = 0 =>
                     LET quart == t_quartile(<<InField, InMask>>, 1, 2, 0)
                     IN  /\ OutField = quart.heap[quart.field]
                         /\ OutMask = quart.heap[quart.mask]
        /\ (t_idx > Min(InMask.h, InMask.w) \div 2) =>
              /\ pc = "failed"
              /\ err = "AssertionError"
              /\ invoked = <<"t_offset">>

C6_Witness ==
    /\ TranslationReturned
    /\ translation = "t_offset" /\ t_idx = HalfSide
    /\ InMask.h = TileSide /\ InMask.w = TileSide
    /\ OutField.at[<<0, 0>>] = InField.at[<<HalfSide, HalfSide>>]
    /\ OutField.at[<<0, 0>>] # InField.at[<<0, 0>>]

\* C7 as stated: transform with t_linear as translation and as noise returns
\* a field and a mask whose every pixel equals the input pixel, for every
\* 8-bit field and every integer label mask.
C7_IdentityKeepsPixels ==
    (pc = "done" /\ translation = "t_linear" /\ noise = "t_linear") =>
        /\ SameShape(heap[field], InField)
        /\ SameShape(heap[mask], InMask)
        /\ \A q \in Grid(InField.h, InField.w) :
               /\ heap[field].at[q] = InField.at[q]
               /\ heap[mask].at[q] = InMask.at[q]

\* C8: t_blur leaves every pixel of the array it was given (and of every
\* other array there is) as it was, writing the blurred values to a copy;
\* t_blur and t_gamma return the mask they were given, its pixels unchanged.
C8_BlurWritesToCopy ==
    [][(/\ pc = "noise"
        /\ noise \in {"t_blur", "t_gamma"}
        /\ pc' = "done") =>
           /\ \A r \in DOMAIN heap : heap'[r] = heap[r]
           /\ noise = "t_blur" => field' # field
           /\ mask' = mask
           /\ heap'[mask'] = heap[mask]]_vars

C8_Witness ==
    /\ pc = "done"
    /\ noise = "t_blur" /\ n_idx = 2
    /\ field = 5
    /\ SameShape(heap[5], heap[3])
    /\ heap[5] # heap[3]
    /\ mask = 4

RegistryRangesAsserted ==
    /\ \A e \in Samples(TRANSLATION) :
           /\ e[1] = "t_quartile" => QuartileIdxOk(e[2])
           /\ e[1] = "t_offset" =>
                  /\ e[2] \in 0 .. (Min(TileSide, TileSide) \div 2)
                  /\ OffsetOk([h |-> TileSide, w |-> TileSide], e[2])
    /\ \A e \in Samples(NOISE) :
           /\ e[1] = "t_rotation" => RotationIdxOk(e[2])
           /\ e[1] = "t_flip" => FlipIdxOk(e[2])
           /\ e[1] = "t_gamma" => GammaIdxOk(e[2])

\* C10: on the square pair the registries assume, every (operator, index)
\* of TRANSLATION combined with every (operator, index) of NOISE is accepted
\* by transform with no failure, and every registry range lies inside the
\* range its operator asserts.
C10_RegistryAccepted ==
    (/\ pc # "call"
     /\ InField.h = TileSide /\ InField.w = TileSide
     /\ <<translation, t_idx>> \in Samples(TRANSLATION)
     /\ <<noise, n_idx>> \in Samples(NOISE)) =>
        /\ pc # "failed"
        /\ err = "none"
        /\ RegistryRangesAsserted
        /\ pc = "done" => SameShape(heap[field], InField)

C10_Witness ==
    /\ pc = "done"
    /\ InField.h = TileSide /\ InField.w = TileSide
    /\ translation = "t_offset" /\ t_idx = HalfSide
    /\ noise = "t_gamma" /\ n_idx = 12
    /\ <<translation, t_idx>> \in Samples(TRANSLATION)
    /\ <<noise, n_idx>> \in Samples(NOISE)

====
